---- MODULE Spec2Model ----
(***************************************************************************)
(* hive-stats: weekly activity aggregation (fetch-hive-stats), the SQLite  *)
(* store it fills (weekly_stats, price_history), the price ingestion       *)
(* (fetch-hive-price) and the dashboard queries of server.ts.              *)
(*                                                                         *)
(* Dates are day numbers counted from 2016-01-01 (day 0), so the order of  *)
(* ISO date strings is the order of the numbers.  The Comments table of    *)
(* the source is a bag of actions, written as a set of groups              *)
(*   [author, created, posts, comments]                                    *)
(* "author made `posts` rows with parent_author = '' and `comments` rows   *)
(* with parent_author != '' on day `created`", one group per author+day.   *)
(***************************************************************************)
EXTENDS Integers, Sequences, FiniteSets, TLC

\* ------------------------------------------------------------------ bounds
MaxGroups == 2
MaxRuns == 2
EndYear == 2020
MaxWeek == 2
MaxPrices == 3
Precision == 12
MaxLen == 4

\* ------------------------------------------------------- program constants
StartYear == 2016
CutoverYear == 2020
UltraMin == 50
VeryMin == 20
ActiveMin == 10
OccasionalMin == 3
LowMin == 1

Accounts == {"alice", "bob"}
DataYears == {2019, 2020}
SampleDays == {0, 1, 7}
PostCounts == {0, 2, 9, 19, 49, 55}
CommentCounts == {0, 1}
SysAccounts == {"alice"}
SysDays == {0, 7}
SysPosts == {2}
SysComments == {1}
UserCounts == {100, 120, 150}
Closes == {-1, 0, 2, 3}

\* ------------------------------------------------------------ arithmetic
RECURSIVE SumF(_, _)
SumF(f, S) ==
  IF S = {} THEN 0
  ELSE LET x == CHOOSE e \in S : TRUE IN f[x] + SumF(f, S \ {x})

Min(S) == CHOOSE x \in S : \A y \in S : x <= y

RECURSIVE SortedSeq(_)
SortedSeq(S) ==
  IF S = {} THEN << >>
  ELSE LET m == Min(S) IN << m >> \o SortedSeq(S \ {m})

Range(s) == {s[i] : i \in DOMAIN s}

\* -------------------------------------------------------------- calendar
IsLeap(y) == y % 4 = 0 /\ (y % 100 # 0 \/ y % 400 = 0)
YearLen(y) == IF IsLeap(y) THEN 366 ELSE 365

\* DATEFROMPARTS(y, 1, 1) as a day number
RECURSIVE DATEFROMPARTS(_)
DATEFROMPARTS(y) ==
  IF y <= StartYear THEN 0 ELSE DATEFROMPARTS(y - 1) + YearLen(y - 1)

\* DATEPART(YEAR, created)
DatePartYear(d) ==
  CHOOSE y \in StartYear..(EndYear + 2) :
    DATEFROMPARTS(y) <= d /\ d < DATEFROMPARTS(y + 1)

\* day of week, 0 = Sunday; 2016-01-01 was a Friday
DayOfWeek(d) == (d + 5) % 7

\* DATEPART(WEEK, created) under the server default DATEFIRST 7: week 1
\* starts on January 1, every later week starts on a Sunday
DatePartWeek(d) ==
  LET jan1 == DATEFROMPARTS(DatePartYear(d))
  IN ((d - jan1) + DayOfWeek(jan1)) \div 7 + 1

\* DATEADD(WEEK, n, d)
DateAddWeek(n, d) == d + 7 * n

\* a JS Date: the day and the time within the day
MkDate(d) == [day |-> d, ms |-> 0]

\* row.week_start.toISOString().split("T")[0]
ToISODate(date) == date.day

\* -------------------------------------------------------- fetchWeeklyStats
\* the range filter with the first day of the year left out
InYearAfterFirst(tbl, y) ==
  {g \in tbl : g.created > DATEFROMPARTS(y) /\ g.created < DATEFROMPARTS(y + 1)}

\* rows of Comments with created in [year-01-01, (year+1)-01-01)
InYear(tbl, y) ==
  {g \in tbl : g.created >= DATEFROMPARTS(y) /\ g.created < DATEFROMPARTS(y + 1)}

GroupKey(g) == << g.author, DatePartYear(g.created), DatePartWeek(g.created) >>

Members(tbl, k) == {g \in tbl : GroupKey(g) = k}

\* CTE UserWeeklyActivity: one row per (author, year, week) with posts,
\* UNION ALL one row per (author, year, week) with comments
UserWeeklyActivity(tbl, y) ==
  LET P == {g \in InYear(tbl, y) : g.posts > 0}
      C == {g \in InYear(tbl, y) : g.comments > 0}
  IN  {[author |-> k[1], year |-> k[2], week |-> k[3],
        post_count |-> SumF([g \in Members(P, k) |-> g.posts], Members(P, k)),
        comment_count |-> 0] : k \in {GroupKey(g) : g \in P}}
      \cup
      {[author |-> k[1], year |-> k[2], week |-> k[3],
        post_count |-> 0,
        comment_count |-> SumF([g \in Members(C, k) |-> g.comments], Members(C, k))]
         : k \in {GroupKey(g) : g \in C}}

\* CTE UserWeeklyTotals
UserWeeklyTotals(tbl, y) ==
  LET A == UserWeeklyActivity(tbl, y)
      K == {<< r.author, r.year, r.week >> : r \in A}
      G(k) == {r \in A : << r.author, r.year, r.week >> = k}
  IN  {[author |-> k[1], year |-> k[2], week |-> k[3],
        posts |-> SumF([r \in G(k) |-> r.post_count], G(k)),
        comments |-> SumF([r \in G(k) |-> r.comment_count], G(k)),
        total_activity |-> SumF([r \in G(k) |-> r.post_count], G(k))
                           + SumF([r \in G(k) |-> r.comment_count], G(k))]
         : k \in K}

\* the five CASE expressions of WeeklyAggregates
IsUltra(n) == n >= UltraMin
\* very active written as 20-50, both ends included
IsVeryInclusive(n) == n >= VeryMin /\ n <= UltraMin
IsVery(n) == n >= VeryMin /\ n < UltraMin
IsActive(n) == n >= ActiveMin /\ n < VeryMin
\* occasional starting above 3 instead of at 3
IsOccasionalAbove(n) == n > OccasionalMin /\ n < ActiveMin
IsOccasional(n) == n >= OccasionalMin /\ n < ActiveMin
IsLow(n) == n >= LowMin /\ n < OccasionalMin

\* DATEADD(WEEK, wa.week - 1, DATEFROMPARTS(wa.year, 1, 1)) as a Date
WeekStart(yr, wk) == MkDate(DateAddWeek(wk - 1, DATEFROMPARTS(yr)))

\* CTE WeeklyAggregates joined with the week_start of the final SELECT
WeeklyRow(T, yr, wk) ==
  LET G == {t \in T : t.year = yr /\ t.week = wk}
  IN  [year |-> yr, week |-> wk,
       week_start |-> WeekStart(yr, wk),
       total_users |-> Cardinality({t.author : t \in G}),
       total_posts |-> SumF([t \in G |-> t.posts], G),
       total_comments |-> SumF([t \in G |-> t.comments], G),
       ultra_active_users |-> Cardinality({t \in G : IsUltra(t.total_activity)}),
       very_active_users |-> Cardinality({t \in G : IsVery(t.total_activity)}),
       active_users |-> Cardinality({t \in G : IsActive(t.total_activity)}),
       occasional_users |-> Cardinality({t \in G : IsOccasional(t.total_activity)}),
       low_activity_users |-> Cardinality({t \in G : IsLow(t.total_activity)})]

\* rank of a (year, week) key in ORDER BY year, week
KeyRank(yr, wk) == yr * 100 + wk

\* the recordset, ORDER BY year, week
fetchWeeklyStats(tbl, y) ==
  LET T == UserWeeklyTotals(tbl, y)
      ranks == SortedSeq({KeyRank(t.year, t.week) : t \in T})
  IN  [i \in 1..Len(ranks) |-> WeeklyRow(T, ranks[i] \div 100, ranks[i] % 100)]

\* ------------------------------------------------------------ source data
\* the tables the source may hold for year y: at most n groups, one group per
\* author and day, each with at least one action
Tables(accts, y, days, posts, comments, n) ==
  LET cells == accts \X {DATEFROMPARTS(y) + d : d \in days}
      counts == {pc \in posts \X comments : pc[1] + pc[2] >= 1}
  IN  UNION {{{[author |-> c[1], created |-> c[2],
                posts |-> f[c][1], comments |-> f[c][2]] : c \in CS}
                 : f \in [CS -> counts]}
               : CS \in {S \in SUBSET cells : Cardinality(S) <= n}}

NumPosts(tbl) == SumF([g \in tbl |-> g.posts], tbl)
NumComments(tbl) == SumF([g \in tbl |-> g.comments], tbl)

\* ------------------------------------------------------ weekly_stats table
\* the columns a WeeklyStats object is written to, week_start as ISO date,
\* and fetched_at from the column default datetime('now'): the time of a
\* row is the run that wrote it
DbRow(row, at) ==
  [year |-> row.year, week |-> row.week,
   week_start |-> ToISODate(row.week_start),
   total_users |-> row.total_users,
   total_posts |-> row.total_posts,
   total_comments |-> row.total_comments,
   ultra_active_users |-> row.ultra_active_users,
   very_active_users |-> row.very_active_users,
   active_users |-> row.active_users,
   occasional_users |-> row.occasional_users,
   low_activity_users |-> row.low_activity_users,
   fetched_at |-> at]

\* a plain INSERT into a table without the primary key
InsertKeyless(tbl, r) == tbl \cup {r}

\* INSERT OR IGNORE: a stored row of the key is kept
InsertOrIgnore(tbl, r) ==
  IF \E q \in tbl : q.year = r.year /\ q.week = r.week THEN tbl
  ELSE tbl \cup {r}

\* INSERT OR REPLACE under PRIMARY KEY (year, week)
InsertOrReplace(tbl, r) ==
  {q \in tbl : ~(q.year = r.year /\ q.week = r.week)} \cup {r}

\* the inserts run outside a transaction: the rows written stay
RollbackNone(pre, work) == work

\* db.transaction: what the store holds once the callback has thrown
Rollback(pre, work) == pre

\* the inserts run outside a transaction: each is visible at once
ReaderViewDirty(committed, work) == work

\* db.transaction: what another connection reads while the callback runs
ReaderView(committed, work) == committed

\* the whole of saveToDatabase on a store, when no insert fails
RECURSIVE InsertMany(_, _, _, _)
InsertMany(tbl, rows, i, at) ==
  IF i > Len(rows) THEN tbl
  ELSE InsertMany(InsertOrReplace(tbl, DbRow(rows[i], at)), rows, i + 1, at)

\* the tables the source returns in the full system
SourceTables(y) ==
  IF y \in DataYears THEN Tables(SysAccounts, y, SysDays, SysPosts, SysComments, MaxGroups)
  ELSE {{}}

NoRaw == {[author |-> "none", created |-> 0, posts |-> 0, comments |-> 0]}

\* ----------------------------------------------------- price_history table
\* seconds in a day of the price source's timestamps
DaySeconds == 24 * 60 * 60

\* new Date(d.time * 1000).toISOString().split("T")[0]: the UTC day that
\* holds second `time`
TimeToISODate(time) == time \div DaySeconds

\* no filter on close
FilterNothing(data) == data

\* .filter(d => d.close > 0)
RECURSIVE FilterPositive(_)
FilterPositive(data) ==
  IF data = << >> THEN << >>
  ELSE IF Head(data).close > 0
         THEN << Head(data) >> \o FilterPositive(Tail(data))
         ELSE FilterPositive(Tail(data))

\* the value fetchDailyHistory resolves to for a "Success" response
fetchDailyHistory(data) ==
  LET kept == FilterPositive(data)
  IN  [i \in 1..Len(kept) |->
         [date |-> TimeToISODate(kept[i].time), price |-> kept[i].close]]

PriceRow(coin, p, at) ==
  [date |-> p.date, coin |-> coin, price_usd |-> p.price, fetched_at |-> at]

\* INSERT with no primary key
InsertKeylessPrice(tbl, r) == tbl \cup {r}

\* INSERT OR REPLACE under a primary key (date, coin)
InsertOrReplaceCoinDay(tbl, r) ==
  {q \in tbl : ~(q.date = r.date /\ q.coin = r.coin)} \cup {r}

\* INSERT OR REPLACE under date TEXT PRIMARY KEY
InsertOrReplacePrice(tbl, r) == {q \in tbl : q.date # r.date} \cup {r}

\* history of the committed ingestions: the batch ps of coin c, from its
\* i-th price on, recorded over h
RECURSIVE Ingested(_, _, _, _, _)
Ingested(h, c, ps, i, at) ==
  IF i > Len(ps) THEN h
  ELSE LET old == {l \in h : l.coin = c /\ l.date = ps[i].date}
           was == IF old = {} THEN 0 ELSE (CHOOSE l \in old : TRUE).price_usd
       IN  Ingested((h \ old) \cup {[coin |-> c, date |-> ps[i].date,
                                    price_usd |-> ps[i].price, at |-> at,
                                    was |-> was]},
                    c, ps, i + 1, at)

\* the Data.Data arrays the price source may answer with: ascending days
\* out of PriceDays, each with a close out of Closes
PriceDays == {DATEFROMPARTS(y) : y \in DataYears}

Responses ==
  LET mk(d, c) == [time |-> d * DaySeconds, close |-> c]
      days2 == {p \in PriceDays \X PriceDays : p[1] < p[2]}
  IN  {<< >>}
      \cup {<< mk(d, c) >> : d \in PriceDays, c \in Closes}
      \cup {<< mk(p[1], c[1]), mk(p[2], c[2]) >> : p \in days2, c \in Closes \X Closes}

\* ------------------------------------------------------------- server.ts
Null == [kind |-> "null", val |-> 0]
Num(v) == [kind |-> "num", val |-> v]
Inf == [kind |-> "inf", val |-> 0]

Abs(n) == IF n < 0 THEN 0 - n ELSE n

\* n/d rounded to the nearest integer, halves away from zero (d > 0)
RoundDiv(n, d) ==
  IF n >= 0 THEN (2 * n + d) \div (2 * d) ELSE 0 - ((2 * Abs(n) + d) \div (2 * d))

\* ---- JavaScript numbers: binary floating point, round to nearest, ties
\* to even, with a significand of Precision bits. A number is m * 2^e, kept
\* with m odd (or m = 0, e = 0); the exponent is not bounded.
RECURSIVE Pow2(_)
Pow2(n) == IF n = 0 THEN 1 ELSE 2 * Pow2(n - 1)

RECURSIVE BitLen(_)
BitLen(n) == IF n = 0 THEN 0 ELSE 1 + BitLen(n \div 2)

FlZero == [m |-> 0, e |-> 0]

RECURSIVE FlNorm(_, _)
FlNorm(m, e) ==
  IF m = 0 THEN FlZero
  ELSE IF m % 2 = 0 THEN FlNorm(m \div 2, e + 1)
  ELSE [m |-> m, e |-> e]

FlNeg(a) == [m |-> 0 - a.m, e |-> a.e]

\* the number nearest to M * 2^e for M >= 0; sticky: the exact value is a
\* little above M * 2^e
FlNearest(M, e, sticky) ==
  LET bl == BitLen(M)
  IN  IF bl <= Precision THEN FlNorm(M, e)
      ELSE LET sh == bl - Precision
               q == M \div Pow2(sh)
               r == M % Pow2(sh)
               h == Pow2(sh - 1)
               up == r > h \/ (r = h /\ (sticky \/ q % 2 = 1))
           IN  FlNorm(IF up THEN q + 1 ELSE q, e + sh)

FlRound(M, e, sticky) ==
  IF M < 0 THEN FlNeg(FlNearest(0 - M, e, sticky)) ELSE FlNearest(M, e, sticky)

\* position of the leading bit
FlTop(a) == a.e + BitLen(Abs(a.m))

\* a + b; an operand below a quarter of the last place of the other is lost
FlAdd(a, b) ==
  IF a.m = 0 THEN b
  ELSE IF b.m = 0 THEN a
  ELSE IF FlTop(a) - FlTop(b) > Precision + 2 THEN a
  ELSE IF FlTop(b) - FlTop(a) > Precision + 2 THEN b
  ELSE LET e == IF a.e < b.e THEN a.e ELSE b.e
       IN  FlRound(a.m * Pow2(a.e - e) + b.m * Pow2(b.e - e), e, FALSE)

FlSub(a, b) == FlAdd(a, FlNeg(b))

FlMul(a, b) == FlRound(a.m * b.m, a.e + b.e, FALSE)

\* a / b for b # 0
FlDiv(a, b) ==
  IF a.m = 0 THEN FlZero
  ELSE LET k == 2 * Precision + 2 - BitLen(Abs(a.m))
           N == Abs(a.m) * Pow2(k)
           q == N \div Abs(b.m)
           neg == (a.m < 0) # (b.m < 0)
       IN  FlRound(IF neg THEN 0 - q ELSE q, a.e - k - b.e, N % Abs(b.m) # 0)

\* the integer square root of M, between lo (lo^2 <= M) and hi (M < hi^2)
RECURSIVE ISqrt(_, _, _)
ISqrt(M, lo, hi) ==
  IF hi - lo <= 1 THEN lo
  ELSE LET mid == (lo + hi) \div 2
       IN  IF mid * mid <= M THEN ISqrt(M, mid, hi) ELSE ISqrt(M, lo, mid)

\* the square root left out
FlSqrtMissing(a) == a

\* Math.sqrt(a) for a > 0
FlSqrt(a) ==
  LET k0 == 2 * Precision + 3 - BitLen(a.m)
      k == IF (a.e - k0) % 2 = 0 THEN k0 ELSE k0 + 1
      M == a.m * Pow2(k)
      s == ISqrt(M, 0, Pow2(Precision + 2))
  IN  FlRound(s, (a.e - k) \div 2, s * s # M)

FlLess(a, b) == FlSub(a, b).m < 0

\* an integer, and the decimal literal n/d, as numbers
FromInt(n) == FlRound(n, 0, FALSE)
FromRat(n, d) == FlDiv(FromInt(n), FromInt(d))

\* x.reduce((a, b) => a + b, 0)
RECURSIVE Reduce(_, _)
Reduce(s, acc) ==
  IF s = << >> THEN acc ELSE Reduce(Tail(s), FlAdd(acc, Head(s)))

NumOf(f) == [kind |-> "num", f |-> f]
NotANumber == [kind |-> "nan", f |-> FlZero]

\* Math.sqrt of a negative number is NaN, NaN === 0 is false and
\* numerator / NaN is NaN
calculateCorrelation(x, y) ==
  LET n == Len(x)
  IN  IF n = 0 \/ Len(x) # Len(y) THEN NumOf(FlZero)
      ELSE
        LET nF == FromInt(n)
            sumX == Reduce(x, FlZero)
            sumY == Reduce(y, FlZero)
            sumXY == Reduce([i \in 1..n |-> FlMul(x[i], y[i])], FlZero)
            sumX2 == Reduce([i \in 1..n |-> FlMul(x[i], x[i])], FlZero)
            sumY2 == Reduce([i \in 1..n |-> FlMul(y[i], y[i])], FlZero)
            numerator == FlSub(FlMul(nF, sumXY), FlMul(sumX, sumY))
            radicand == FlMul(FlSub(FlMul(nF, sumX2), FlMul(sumX, sumX)),
                              FlSub(FlMul(nF, sumY2), FlMul(sumY, sumY)))
        IN  IF radicand.m < 0 THEN NotANumber
            ELSE IF radicand.m = 0 THEN NumOf(FlZero)
            ELSE NumOf(FlDiv(numerator, FlSqrt(radicand)))

\* correlationDesc without its branches for a negative coefficient
CorrelationDescPositiveOnly(c) ==
  LET gt(n, d) == c.kind = "num" /\ FlLess(FromRat(n, d), c.f)
  IN  IF gt(7, 10)
        THEN "Strong positive correlation - price and users move together"
      ELSE IF gt(4, 10) THEN "Moderate positive correlation"
      ELSE IF gt(2, 10) THEN "Weak positive correlation"
      ELSE "No significant correlation"

\* correlationDesc; every comparison with NaN is false
CorrelationDesc(c) ==
  LET gt(n, d) == c.kind = "num" /\ FlLess(FromRat(n, d), c.f)
      lt(n, d) == c.kind = "num" /\ FlLess(c.f, FlNeg(FromRat(n, d)))
  IN  IF gt(7, 10)
        THEN "Strong positive correlation - price and users move together"
      ELSE IF gt(4, 10) THEN "Moderate positive correlation"
      ELSE IF gt(2, 10) THEN "Weak positive correlation"
      ELSE IF lt(7, 10) THEN "Strong negative correlation - inverse relationship"
      ELSE IF lt(4, 10) THEN "Moderate negative correlation"
      ELSE IF lt(2, 10) THEN "Weak negative correlation"
      ELSE "No significant correlation"

\* Number(correlation.toFixed(3)), in thousandths
ToFixed3(c) ==
  IF c.kind = "nan" THEN [kind |-> "nan", val |-> 0]
  ELSE LET a == Abs(c.f.m)
           t == IF c.f.e >= 0 THEN 1000 * a * Pow2(c.f.e)
                ELSE IF 0 - c.f.e > 2 * Precision THEN 0
                ELSE RoundDiv(1000 * a, Pow2(0 - c.f.e))
       IN  Num(IF c.f.m < 0 THEN 0 - t ELSE t)

\* rows of a table in ORDER BY year, week
\* the rows in descending key order
OrderedRowsDesc(ws) ==
  LET ranks == SortedSeq({KeyRank(r.year, r.week) : r \in ws})
  IN  [i \in 1..Len(ranks) |->
         CHOOSE r \in ws : KeyRank(r.year, r.week) = ranks[Len(ranks) + 1 - i]]

\* the rows of weekly_stats in the order of ORDER BY ws.year, ws.week
OrderedRows(ws) ==
  LET ranks == SortedSeq({KeyRank(r.year, r.week) : r \in ws})
  IN  [i \in 1..Len(ranks) |->
         CHOOSE r \in ws : KeyRank(r.year, r.week) = ranks[i]]

\* the join without its condition on the coin
JoinedPricesAnyCoin(r, ph) ==
  {q \in ph : q.date >= r.week_start /\ q.date < r.week_start + 7}

\* the price rows the LEFT JOIN of getWeeklyStats matches to a weekly row
JoinedPrices(r, ph) ==
  {q \in ph :
     /\ q.date >= r.week_start
     /\ q.date < r.week_start + 7
     /\ \/ (r.year < CutoverYear /\ q.coin = "steem")
        \/ (r.year >= CutoverYear /\ q.coin = "hive")}

\* AVG(price_usd) as the pair sum, count; null over no rows
AvgPrice(P) ==
  IF P = {} THEN [kind |-> "null", sum |-> 0, n |-> 0]
  ELSE [kind |-> "num", sum |-> SumF([q \in P |-> q.price_usd], P),
        n |-> Cardinality(P)]

getWeeklyStats(ws, ph) ==
  LET rows == OrderedRows(ws)
  IN  [i \in 1..Len(rows) |->
         [f \in DOMAIN rows[i] \cup {"avg_price"} |->
            IF f = "avg_price" THEN AvgPrice(JoinedPrices(rows[i], ph))
            ELSE rows[i][f]]]

\* summaryRow of a table that has rows
SummaryRow(ws) ==
  [total_weeks |-> Cardinality(ws),
   total_user_weeks |-> SumF([r \in ws |-> r.total_users], ws),
   total_posts |-> SumF([r \in ws |-> r.total_posts], ws),
   total_comments |-> SumF([r \in ws |-> r.total_comments], ws)]

\* ORDER BY total_users DESC LIMIT 1: any row of maximal total_users, the
\* order among equal total_users being left to the engine
PeakRows(ws) == {r \in ws : \A q \in ws : q.total_users <= r.total_users}

\* ORDER BY year, week LIMIT 1 OFFSET 1: the order not reversed
LastCompleteWeekAscending(ws) ==
  LET rows == OrderedRows(ws)
  IN  IF Len(rows) < 2 THEN {} ELSE {rows[2]}

\* LIMIT 1 OFFSET 1 falling back to the only row
LastCompleteWeekOrOnly(ws) ==
  LET rows == OrderedRows(ws)
  IN  IF Len(rows) < 2 THEN Range(rows) ELSE {rows[Len(rows) - 1]}

\* ORDER BY year DESC, week DESC LIMIT 1 OFFSET 1
LastCompleteWeekRows(ws) ==
  LET rows == OrderedRows(ws)
  IN  IF Len(rows) < 2 THEN {} ELSE {rows[Len(rows) - 1]}

\* yearRows: GROUP BY year ORDER BY year, AVG(total_users) as sum and count
YearRows(ws) ==
  LET ys == SortedSeq({r.year : r \in ws})
      G(y) == {r \in ws : r.year = y}
  IN  [i \in 1..Len(ys) |->
         [year |-> ys[i],
          sum_users |-> SumF([r \in G(ys[i]) |-> r.total_users], G(ys[i])),
          weeks |-> Cardinality(G(ys[i])),
          total_posts |-> SumF([r \in G(ys[i]) |-> r.total_posts], G(ys[i])),
          total_comments |-> SumF([r \in G(ys[i]) |-> r.total_comments], G(ys[i]))]]

\* prevYear defaulting to an empty year instead of null
PrevYearOrEmpty(yearRows, i) ==
  IF i > 1 THEN {yearRows[i - 1]}
  ELSE {[yearRows[i] EXCEPT !.sum_users = 0, !.total_posts = 0,
                            !.total_comments = 0]}

\* prevYear of the i-th entry (a set: empty for null)
PrevYear(yearRows, i) == IF i > 1 THEN {yearRows[i - 1]} ELSE {}

\* (row.avg - prev.avg) / prev.avg * 100 in IEEE arithmetic; a finite value
\* is kept in tenths, as toFixed(1) rounds it, with a mark when it is 0
RawChange(prev, row) ==
  LET num == row.sum_users * prev.weeks - prev.sum_users * row.weeks
      den == prev.sum_users * row.weeks
  IN  IF den = 0
        THEN (IF num = 0 THEN [kind |-> "nan", val |-> 0, zero |-> FALSE]
              ELSE [kind |-> "inf", val |-> 0, zero |-> FALSE])
        ELSE [kind |-> "num", val |-> RoundDiv(1000 * num, den), zero |-> (num = 0)]

\* changePercent ? Number(changePercent.toFixed(1)) : null
ChangePercent(yearRows, i) ==
  LET prev == PrevYear(yearRows, i)
  IN  IF prev = {} THEN Null
      ELSE LET c == RawChange(CHOOSE r \in prev : TRUE, yearRows[i])
           IN  IF c.kind = "nan" \/ c.zero THEN Null
               ELSE IF c.kind = "inf" THEN Inf
               ELSE Num(c.val)

\* priceRow: AVG(price_usd) WHERE strftime('%Y', date) = year, then
\* avg_price ? Number(avg_price.toFixed(4)) : null
YearAvgPrice(ph, y) ==
  LET P == {q \in ph : DatePartYear(q.date) = y}
      s == SumF([q \in P |-> q.price_usd], P)
  IN  IF P = {} \/ s = 0 THEN Null
      ELSE Num(RoundDiv(10000 * s, Cardinality(P)))

YearOverYear(ws, ph) ==
  LET yr == YearRows(ws)
  IN  [i \in 1..Len(yr) |->
         [year |-> yr[i].year,
          avgWeeklyUsers |-> RoundDiv(yr[i].sum_users, yr[i].weeks),
          avgPrice |-> YearAvgPrice(ph, yr[i].year),
          totalPosts |-> yr[i].total_posts,
          totalComments |-> yr[i].total_comments,
          changePercent |-> ChangePercent(yr, i)]]

\* w.avg_price as a number: AVG is the sum over the count
PriceOf(w) ==
  IF w.avg_price.kind = "null" THEN FlZero
  ELSE FlDiv(FromInt(w.avg_price.sum), FromInt(w.avg_price.n))

\* every week kept, a null price counting as 0
DataWithPriceImputed(weeklyStats) == weeklyStats

\* weeklyStats.filter(w => w.avg_price !== null && w.avg_price > 0)
DataWithPrice(weeklyStats) ==
  SelectSeq(weeklyStats,
            LAMBDA w : w.avg_price.kind # "null" /\ PriceOf(w).m > 0)

\* insights.correlations
Correlations(weeklyStats) ==
  LET dataWithPrice == DataWithPrice(weeklyStats)
      prices == [i \in 1..Len(dataWithPrice) |-> PriceOf(dataWithPrice[i])]
      users == [i \in 1..Len(dataWithPrice) |->
                  FromInt(dataWithPrice[i].total_users)]
      correlation == calculateCorrelation(prices, users)
  IN  [priceUserCorrelation |-> ToFixed3(correlation),
       description |-> CorrelationDesc(correlation)]

\* tierRow, or null sums over no rows
TierRow(ws) ==
  [ultra |-> SumF([r \in ws |-> r.ultra_active_users], ws),
   very |-> SumF([r \in ws |-> r.very_active_users], ws),
   active |-> SumF([r \in ws |-> r.active_users], ws),
   occasional |-> SumF([r \in ws |-> r.occasional_users], ws),
   low |-> SumF([r \in ws |-> r.low_activity_users], ws)]

\* Number(((tier / totalTiers) * 100).toFixed(1)) in tenths; 0 / 0 is NaN
Percent(tier, totalTiers) ==
  IF totalTiers = 0 THEN [kind |-> "nan", val |-> 0]
  ELSE Num(RoundDiv(1000 * tier, totalTiers))

\* the grand total taken without the low tier
ActivityDistributionNoLow(ws) ==
  LET tierRow == TierRow(ws)
      totalTiers == tierRow.ultra + tierRow.very + tierRow.active
                      + tierRow.occasional
  IN  [ultraActive |-> Percent(tierRow.ultra, totalTiers),
       veryActive |-> Percent(tierRow.very, totalTiers),
       active |-> Percent(tierRow.active, totalTiers),
       occasional |-> Percent(tierRow.occasional, totalTiers),
       lowActivity |-> Percent(tierRow.low, totalTiers)]

\* insights.activityDistribution
ActivityDistribution(ws) ==
  LET tierRow == TierRow(ws)
      totalTiers == tierRow.ultra + tierRow.very + tierRow.active
                      + tierRow.occasional + tierRow.low
  IN  [ultraActive |-> Percent(tierRow.ultra, totalTiers),
       veryActive |-> Percent(tierRow.very, totalTiers),
       active |-> Percent(tierRow.active, totalTiers),
       occasional |-> Percent(tierRow.occasional, totalTiers),
       lowActivity |-> Percent(tierRow.low, totalTiers)]

NoSummary ==
  [totalWeeks |-> 0, totalUserWeeks |-> 0, totalPosts |-> 0,
   totalComments |-> 0, avgWeeklyUsers |-> 0, peakWeeklyUsers |-> 0,
   peakWeekDate |-> 0, lastCompleteWeekUsers |-> 0, lastCompleteWeekDate |-> 0]
NoResponse ==
  [status |-> "none", weeklyStats |-> << >>, summary |-> NoSummary,
   yearOverYear |-> << >>,
   correlations |-> [priceUserCorrelation |-> Num(0), description |-> "none"],
   activityDistribution |->
     [ultraActive |-> Num(0), veryActive |-> Num(0), active |-> Num(0),
      occasional |-> Num(0), lowActivity |-> Num(0)]]

\* getStats on the rows ws, ph with peakRow = peak (a set of at most one
\* row, empty for null); reading a property of a null row throws
getStats(ws, ph, peak) ==
  LET last == LastCompleteWeekRows(ws)
  IN  IF peak = {} \/ last = {}
        THEN [NoResponse EXCEPT !.status = "TypeError"]
        ELSE LET s == SummaryRow(ws)
                 pk == CHOOSE r \in peak : TRUE
                 lc == CHOOSE r \in last : TRUE
                 weeklyStats == getWeeklyStats(ws, ph)
             IN  [status |-> "ok",
                  weeklyStats |-> weeklyStats,
                  summary |->
                    [totalWeeks |-> s.total_weeks,
                     totalUserWeeks |-> s.total_user_weeks,
                     totalPosts |-> s.total_posts,
                     totalComments |-> s.total_comments,
                     avgWeeklyUsers |-> RoundDiv(s.total_user_weeks, s.total_weeks),
                     peakWeeklyUsers |-> pk.total_users,
                     peakWeekDate |-> pk.week_start,
                     lastCompleteWeekUsers |-> lc.total_users,
                     lastCompleteWeekDate |-> lc.week_start],
                  yearOverYear |-> YearOverYear(ws, ph),
                  correlations |-> Correlations(weeklyStats),
                  activityDistribution |-> ActivityDistribution(ws)]

\* ------------------------------------------------------------------ state
VARIABLES
  weekly_stats,   \* committed rows of table weekly_stats
  price_history,  \* committed rows of table price_history
  pcS,            \* fetch-hive-stats: position in main
  runS,           \* fetch-hive-stats: runs started
  year,           \* fetch-hive-stats: loop variable
  rawIn,          \* rows of Comments the source holds at the current fetch
  stats,          \* fetch-hive-stats: result of fetchWeeklyStats
  rowIdx,         \* saveToDatabase: next row of the batch
  txS,            \* saveToDatabase: the table inside the open transaction
  preS,           \* history: weekly_stats when the transaction began
  poolOpen,       \* HiveSQL connection pool is open
  dbOpenS,        \* fetch-hive-stats holds the database open
  outcomeS,       \* how the last run of fetch-hive-stats ended
  ingested,       \* history: per year, the source rows of its last commit
  repeatS,        \* history: the last commit re-ingested the same source rows
  failIdx,        \* history: the insert that threw in each program's last run
  pcP,            \* fetch-hive-price: position in main
  runP,           \* fetch-hive-price: runs started
  coinP,          \* fetch-hive-price: the coin being fetched
  droppedP,       \* history: entries of the last response that fetchDailyHistory dropped
  prices,         \* fetch-hive-price: result of fetchDailyHistory
  idxP,           \* savePrices: next price of the batch
  txP,            \* savePrices: the table inside the open transaction
  preP,           \* history: price_history when the transaction began
  errP,           \* fetch-hive-price: what the last catch block logged
  outcomeP,       \* how the last run of fetch-hive-price ended
  latestP,        \* history: per coin and day, its last committed ingestion
  pcR,            \* server: position in the /api/stats handler
  response,       \* server: the value getStats returned
  readCtx,        \* history: the writer's transaction when getStats read
  corrX,          \* calculateCorrelation: argument x
  corrY,          \* calculateCorrelation: argument y
  corrOut         \* the coefficient returned and its description

varsS == << pcS, runS, year, rawIn, stats, rowIdx, txS, preS, poolOpen,
            dbOpenS, outcomeS, ingested, repeatS >>
varsP == << pcP, runP, coinP, droppedP, prices, idxP, txP, preP, errP,
            outcomeP, latestP >>
varsC == << corrX, corrY, corrOut >>
varsR == << pcR, response, readCtx, varsC >>
vars == << weekly_stats, price_history, failIdx, varsS, varsP, varsR >>

NoCtx == [inTx |-> FALSE, pre |-> {}, post |-> {}, seen |-> {}]
NoCorr ==
  [correlation |-> NumOf(FlZero), priceUserCorrelation |-> Num(0),
   description |-> "none"]

InitCommon ==
  /\ rowIdx = 0
  /\ txS = {}
  /\ preS = {}
  /\ poolOpen = FALSE
  /\ dbOpenS = FALSE
  /\ outcomeS = "none"
  /\ ingested = [y \in DataYears |-> NoRaw]
  /\ repeatS = FALSE
  /\ failIdx = [stats |-> 0, price |-> 0]
  /\ pcP = "idle"
  /\ coinP = "steem"
  /\ droppedP = 0
  /\ prices = << >>
  /\ idxP = 0
  /\ txP = {}
  /\ preP = {}
  /\ errP = "none"
  /\ outcomeP = "none"
  /\ latestP = {}
  /\ pcR = "idle"
  /\ response = NoResponse
  /\ readCtx = NoCtx
  /\ corrOut = NoCorr

\* ---------------------------------------------- aggregation on its own
AggTables(y) ==
  Tables(Accounts, y, SampleDays, PostCounts, CommentCounts, MaxGroups)

InitAgg ==
  /\ InitCommon
  /\ corrX = << >>
  /\ corrY = << >>
  /\ runS = 1
  /\ runP = 0
  /\ weekly_stats = {}
  /\ price_history = {}
  /\ year \in DataYears
  /\ \E y \in DataYears : rawIn \in AggTables(y)
  /\ stats = << >>
  /\ pcS = "fetch"

Aggregate ==
  /\ pcS = "fetch"
  /\ stats' = fetchWeeklyStats(rawIn, year)
  /\ pcS' = "fetched"
  /\ UNCHANGED << weekly_stats, price_history, runS, year, rawIn,
                  rowIdx, txS, preS, poolOpen, dbOpenS, outcomeS, ingested,
                  varsP, varsR, repeatS, failIdx >>

\* saveToDatabase(db, stats) as main calls it, no insert failing
SaveAll ==
  /\ pcS = "fetched"
  /\ weekly_stats' = IF Len(stats) > 0 THEN InsertMany(weekly_stats, stats, 1, runS)
                     ELSE weekly_stats
  /\ pcS' = "saved"
  /\ UNCHANGED << price_history, runS, year, rawIn, stats, rowIdx, txS, preS,
                  poolOpen, dbOpenS, outcomeS, ingested, repeatS, failIdx,
                  varsP, varsR >>

NextAgg == Aggregate \/ SaveAll

SpecAgg == InitAgg /\ [][NextAgg]_vars

\* ------------------------------------- the year loop over the week buckets
\* offsets from January 1: the first day of a year, a day of its first
\* week-numbering boundary, the eighth day and the last day
WeekDays == {0, 5, 7, 364}

\* the sets of at most n of these days
RECURSIVE DaySets(_)
DaySets(n) ==
  IF n = 0 THEN {{}}
  ELSE LET S == DaySets(n - 1)
       IN  S \cup {D \cup {d} : D \in S, d \in WeekDays}

\* the tables the source may hold for year y: one group per day
WeekTables(y) ==
  {{[author |-> a, created |-> DATEFROMPARTS(y) + d, posts |-> p,
     comments |-> c] : a \in SysAccounts, d \in D, p \in SysPosts,
                       c \in SysComments}
     : D \in DaySets(MaxGroups)}

InitWeeks ==
  /\ InitCommon
  /\ corrX = << >>
  /\ corrY = << >>
  /\ runS = 1
  /\ runP = 0
  /\ weekly_stats = {}
  /\ price_history = {}
  /\ year \in DataYears
  /\ rawIn \in WeekTables(year)
  /\ stats = << >>
  /\ pcS = "fetch"

\* year++ and the source as the next query finds it
NextYear ==
  /\ pcS = "saved"
  /\ year < EndYear
  /\ year' = year + 1
  /\ rawIn' \in WeekTables(year + 1)
  /\ stats' = << >>
  /\ pcS' = "fetch"
  /\ UNCHANGED << weekly_stats, price_history, runS, rowIdx, txS, preS,
                  poolOpen, dbOpenS, outcomeS, ingested, repeatS, failIdx,
                  varsP, varsR >>

NextWeeks == Aggregate \/ SaveAll \/ NextYear

SpecWeeks == InitWeeks /\ [][NextWeeks]_vars

\* -------------------------------------------------- fetch-hive-stats main
Init ==
  /\ InitCommon
  /\ corrX = << >>
  /\ corrY = << >>
  /\ runS = 0
  /\ runP = 0
  /\ weekly_stats = {}
  /\ price_history = {}
  /\ year = StartYear
  /\ rawIn = {}
  /\ stats = << >>
  /\ pcS = "idle"

\* initDatabase, then sql.connect; the two ingestion programs are started
\* one after the other
StartRun ==
  /\ pcS = "idle"
  /\ pcP = "idle"
  /\ runS < MaxRuns
  /\ runS' = runS + 1
  /\ dbOpenS' = TRUE
  /\ outcomeS' = "none"
  /\ pcS' = "connect"
  /\ failIdx' = [failIdx EXCEPT !.stats = 0]
  /\ UNCHANGED << weekly_stats, price_history, year, rawIn, stats, rowIdx,
                  txS, preS, poolOpen, ingested, varsP, varsR, repeatS >>

Connect ==
  /\ pcS = "connect"
  /\ poolOpen' = TRUE
  /\ year' = StartYear
  /\ pcS' = "loop"
  /\ UNCHANGED << weekly_stats, price_history, runS, rawIn, stats,
                  rowIdx, txS, preS, dbOpenS, outcomeS, ingested, varsP, varsR, repeatS, failIdx >>

\* sql.connect rejects before the try block: main rejects, process.exit(1)
ConnectFail ==
  /\ pcS = "connect"
  /\ outcomeS' = "error"
  /\ dbOpenS' = FALSE
  /\ pcS' = "idle"
  /\ UNCHANGED << weekly_stats, price_history, runS, year, rawIn, stats,
                  rowIdx, txS, preS, poolOpen, ingested, varsP, varsR, repeatS, failIdx >>

\* the year loop leaving the try block at a year without rows
FetchYearStopOnEmpty ==
  /\ pcS = "loop"
  /\ year <= EndYear
  /\ \E tbl \in SourceTables(year) :
       LET result == fetchWeeklyStats(tbl, year)
       IN  IF Len(result) > 0
             THEN /\ rawIn' = tbl
                  /\ stats' = result
                  /\ pcS' = "save"
                  /\ rowIdx' = 1
                  /\ txS' = weekly_stats
                  /\ preS' = weekly_stats
                  /\ year' = year
             ELSE /\ rawIn' = tbl
                  /\ pcS' = "finally"
                  /\ year' = year
                  /\ UNCHANGED << stats, rowIdx, txS, preS >>
  /\ repeatS' = FALSE
  /\ UNCHANGED << weekly_stats, price_history, runS, poolOpen, dbOpenS,
                  outcomeS, ingested, varsP, varsR, failIdx >>

\* one iteration of the year loop up to the call of saveToDatabase
FetchYear ==
  /\ pcS = "loop"
  /\ year <= EndYear
  /\ \E tbl \in SourceTables(year) :
       LET result == fetchWeeklyStats(tbl, year)
       IN  IF Len(result) > 0
             THEN /\ rawIn' = tbl
                  /\ stats' = result
                  /\ pcS' = "save"
                  /\ rowIdx' = 1
                  /\ txS' = weekly_stats
                  /\ preS' = weekly_stats
                  /\ year' = year
             ELSE /\ rawIn' = tbl
                  /\ pcS' = "loop"
                  /\ year' = year + 1
                  /\ UNCHANGED << stats, rowIdx, txS, preS >>
  /\ repeatS' = FALSE
  /\ UNCHANGED << weekly_stats, price_history, runS, poolOpen, dbOpenS,
                  outcomeS, ingested, varsP, varsR, failIdx >>

\* the rejection caught inside the loop, which goes on with the next year
FetchFailSkipsYear ==
  /\ pcS = "loop"
  /\ year <= EndYear
  /\ outcomeS' = "error"
  /\ year' = year + 1
  /\ repeatS' = FALSE
  /\ UNCHANGED << weekly_stats, price_history, pcS, runS, rawIn, stats,
                  rowIdx, txS, preS, poolOpen, dbOpenS, ingested, varsP, varsR, failIdx >>

\* the query of fetchWeeklyStats rejects
FetchFail ==
  /\ pcS = "loop"
  /\ year <= EndYear
  /\ outcomeS' = "error"
  /\ pcS' = "finally"
  /\ repeatS' = FALSE
  /\ UNCHANGED << weekly_stats, price_history, runS, year, rawIn, stats,
                  rowIdx, txS, preS, poolOpen, dbOpenS, ingested, varsP, varsR, failIdx >>

\* insert.run for one row of the batch
InsertRow ==
  /\ pcS = "save"
  /\ rowIdx <= Len(stats)
  /\ txS' = InsertOrReplace(txS, DbRow(stats[rowIdx], runS))
  /\ rowIdx' = rowIdx + 1
  /\ UNCHANGED << weekly_stats, price_history, pcS, runS, year, rawIn,
                  stats, preS, poolOpen, dbOpenS, outcomeS, ingested, varsP,
                  varsR, repeatS, failIdx >>

\* insert.run throws: the transaction is rolled back and main's try is left
InsertFail ==
  /\ pcS = "save"
  /\ rowIdx <= Len(stats)
  /\ weekly_stats' = Rollback(weekly_stats, txS)
  /\ txS' = {}
  /\ preS' = {}
  /\ rawIn' = {}
  /\ stats' = << >>
  /\ rowIdx' = 0
  /\ outcomeS' = "save_error"
  /\ pcS' = "finally"
  /\ failIdx' = [failIdx EXCEPT !.stats = rowIdx]
  /\ UNCHANGED << price_history, runS, year, poolOpen, dbOpenS,
                  ingested, varsP, varsR, repeatS >>

\* end of insertMany: commit, then the next year
Commit ==
  /\ pcS = "save"
  /\ rowIdx > Len(stats)
  /\ weekly_stats' = txS
  /\ txS' = {}
  /\ ingested' = [ingested EXCEPT ![year] = rawIn]
  /\ preS' = {}
  /\ rawIn' = {}
  /\ stats' = << >>
  /\ rowIdx' = 0
  /\ year' = year + 1
  /\ pcS' = "loop"
  /\ repeatS' = (ingested[year] = rawIn)
  /\ UNCHANGED << price_history, runS, poolOpen, dbOpenS, outcomeS,
                  varsP, varsR, failIdx >>

\* the summary after the loop; SUM over an empty table is null and
\* null.toLocaleString() throws
PrintSummary ==
  /\ pcS = "loop"
  /\ year > EndYear
  /\ outcomeS' = IF weekly_stats = {} THEN "error" ELSE "ok"
  /\ pcS' = "finally"
  /\ repeatS' = FALSE
  /\ UNCHANGED << weekly_stats, price_history, runS, year, rawIn, stats,
                  rowIdx, txS, preS, poolOpen, dbOpenS, ingested, varsP, varsR, failIdx >>

\* finally: pool.close(), db.close()
Finally ==
  /\ pcS = "finally"
  /\ poolOpen' = FALSE
  /\ dbOpenS' = FALSE
  /\ pcS' = "idle"
  /\ UNCHANGED << weekly_stats, price_history, runS, year, rawIn, stats,
                  rowIdx, txS, preS, outcomeS, ingested, varsP, varsR, repeatS, failIdx >>

StatsNext ==
  \/ StartRun \/ Connect \/ ConnectFail \/ FetchYear \/ FetchFail
  \/ InsertRow \/ InsertFail \/ Commit \/ PrintSummary \/ Finally

\* -------------------------------------------------- fetch-hive-price main
\* what follows a coin's try/catch: the other coin, then the summary
AfterCoin ==
  /\ prices' = << >>
  /\ idxP' = 0
  /\ txP' = {}
  /\ preP' = {}
  /\ IF coinP = "steem"
       THEN coinP' = "hive" /\ pcP' = "fetch"
       ELSE coinP' = coinP /\ pcP' = "summary"

\* new Database, initPriceTable
StartPrice ==
  /\ pcP = "idle"
  /\ pcS = "idle"
  /\ runP < MaxRuns
  /\ runP' = runP + 1
  /\ coinP' = "steem"
  /\ errP' = "none"
  /\ outcomeP' = "none"
  /\ pcP' = "fetch"
  /\ failIdx' = [failIdx EXCEPT !.price = 0]
  /\ UNCHANGED << latestP, droppedP, weekly_stats, price_history, prices, idxP, txP, preP, varsS,
                  varsR >>

\* fetchDailyHistory resolves; savePrices begins when it is not empty
FetchPrices ==
  /\ pcP = "fetch"
  /\ \E data \in Responses :
       LET result == fetchDailyHistory(data)
       IN  /\ droppedP' = Len(data) - Len(result)
           /\ IF Len(result) > 0
                THEN /\ prices' = result
                     /\ idxP' = 1
                     /\ txP' = price_history
                     /\ preP' = price_history
                     /\ pcP' = "save"
                     /\ coinP' = coinP
                ELSE AfterCoin
  /\ UNCHANGED << latestP, outcomeP, weekly_stats, price_history, runP, errP, varsS, varsR, failIdx >>

\* fetchDailyHistory throws; the catch block logs
FetchPricesFail ==
  /\ pcP = "fetch"
  /\ errP' = "fetch"
  /\ droppedP' = 0
  /\ AfterCoin
  /\ UNCHANGED << latestP, outcomeP, weekly_stats, price_history, runP, varsS, varsR, failIdx >>

InsertPrice ==
  /\ pcP = "save"
  /\ idxP <= Len(prices)
  /\ txP' = InsertOrReplacePrice(txP, PriceRow(coinP, prices[idxP], runP))
  /\ idxP' = idxP + 1
  /\ UNCHANGED << latestP, outcomeP, droppedP, weekly_stats, price_history, pcP, runP, coinP, prices,
                  preP, errP, varsS, varsR, failIdx >>

\* insert.run throws: rollback, and the catch block logs
InsertPriceFail ==
  /\ pcP = "save"
  /\ idxP <= Len(prices)
  /\ price_history' = Rollback(price_history, txP)
  /\ errP' = "save"
  /\ AfterCoin
  /\ failIdx' = [failIdx EXCEPT !.price = idxP]
  /\ UNCHANGED << latestP, outcomeP, droppedP, weekly_stats, runP, varsS, varsR >>

CommitPrices ==
  /\ pcP = "save"
  /\ idxP > Len(prices)
  /\ price_history' = txP
  /\ latestP' = Ingested(latestP, coinP, prices, 1, runP)
  /\ AfterCoin
  /\ UNCHANGED << droppedP, outcomeP, weekly_stats, runP, errP, varsS, varsR, failIdx >>

\* the two COUNT queries, db.close(); main resolves
PriceSummary ==
  /\ pcP = "summary"
  /\ pcP' = "idle"
  /\ droppedP' = 0
  /\ outcomeP' = "ok"
  /\ UNCHANGED << latestP, weekly_stats, price_history, runP, coinP, prices, idxP,
                  txP, preP, errP, varsS, varsR, failIdx >>

PriceNext ==
  \/ StartPrice \/ FetchPrices \/ FetchPricesFail \/ InsertPrice
  \/ InsertPriceFail \/ CommitPrices \/ PriceSummary

\* ------------------------------------------------------ server /api/stats
\* getStats() over what the server's connection reads
GetStats ==
  /\ pcR = "idle"
  /\ LET ws == ReaderView(weekly_stats, IF pcS = "save" THEN txS ELSE weekly_stats)
         ph == ReaderView(price_history, IF pcP = "save" THEN txP ELSE price_history)
     IN  /\ \E peak \in IF ws = {} THEN {{}} ELSE {{r} : r \in PeakRows(ws)} :
              response' = getStats(ws, ph, peak)
         /\ readCtx' = IF pcS = "save"
                         THEN [inTx |-> TRUE, pre |-> preS,
                               post |-> InsertMany(preS, stats, 1, runS),
                               seen |-> ws]
                         ELSE [NoCtx EXCEPT !.seen = ws]
  /\ pcR' = "respond"
  /\ UNCHANGED << weekly_stats, price_history, failIdx, varsS, varsP, varsC >>

\* Response.json(stats), or the error response
Respond ==
  /\ pcR = "respond"
  /\ pcR' = "idle"
  /\ response' = NoResponse
  /\ readCtx' = NoCtx
  /\ UNCHANGED << weekly_stats, price_history, varsS, varsP, failIdx, varsC >>

ServerNext == GetStats \/ Respond

\* getStats taken as one step between two steps of an ingestion program;
\* SpecSnapshot below takes it statement by statement.
Next == (pcR = "idle" /\ StatsNext) \/ ServerNext

\* fetch-hive-stats and the server
Spec == Init /\ [][Next]_vars

NextPrice == (pcR = "idle" /\ PriceNext) \/ ServerNext

\* fetch-hive-price and the server
SpecPrice == Init /\ [][NextPrice]_vars

\* ------------------------------- getStats statement by statement
\* fetch-hive-stats is another process: it may step between two statements
\* of getStats, each of which reads the database as committed at its time.
\* const weeklyStats = getWeeklyStats()
ReadWeeklyStats ==
  /\ pcR = "idle"
  /\ LET ws == ReaderView(weekly_stats, IF pcS = "save" THEN txS ELSE weekly_stats)
         ph == ReaderView(price_history, IF pcP = "save" THEN txP ELSE price_history)
     IN  /\ response' = [NoResponse EXCEPT !.status = "reading",
                                           !.weeklyStats = getWeeklyStats(ws, ph)]
         /\ readCtx' = [NoCtx EXCEPT !.seen = ws]
  /\ pcR' = "reading"
  /\ UNCHANGED << weekly_stats, price_history, failIdx, varsS, varsP, varsC >>

\* summaryRow and the statements after it, with the weeklyStats read before
ReadSummary ==
  /\ pcR = "reading"
  /\ LET ws == ReaderView(weekly_stats, IF pcS = "save" THEN txS ELSE weekly_stats)
         ph == ReaderView(price_history, IF pcP = "save" THEN txP ELSE price_history)
     IN  \E peak \in IF ws = {} THEN {{}} ELSE {{r} : r \in PeakRows(ws)} :
           LET g == getStats(ws, ph, peak)
           IN  response' =
                 IF g.status = "ok"
                   THEN [g EXCEPT !.weeklyStats = response.weeklyStats,
                                  !.correlations = Correlations(response.weeklyStats)]
                   ELSE g
  /\ pcR' = "respond"
  /\ UNCHANGED << weekly_stats, price_history, failIdx, readCtx, varsS, varsP,
                  varsC >>

NextSnapshot == StatsNext \/ ReadWeeklyStats \/ ReadSummary \/ Respond

\* fetch-hive-stats and the server as two processes
SpecSnapshot == Init /\ [][NextSnapshot]_vars

\* both ingestion programs and the server, from the last run of each
\* program on (earlier runs that wrote nothing leave this state)
InitStore ==
  /\ InitCommon
  /\ corrX = << >>
  /\ corrY = << >>
  /\ runS = MaxRuns - 1
  /\ runP = MaxRuns - 1
  /\ weekly_stats = {}
  /\ price_history = {}
  /\ year = StartYear
  /\ rawIn = {}
  /\ stats = << >>
  /\ pcS = "idle"

NextStore == (pcR = "idle" /\ (StatsNext \/ PriceNext)) \/ ServerNext

SpecStore == InitStore /\ [][NextStore]_vars

\* ------------------------------------------------ the queries on their own
\* the stored row of week wk of year yr in which u accounts posted once each
InsightRow(yr, wk, u) ==
  DbRow([year |-> yr, week |-> wk, week_start |-> WeekStart(yr, wk),
         total_users |-> u, total_posts |-> u, total_comments |-> 0,
         ultra_active_users |-> 0, very_active_users |-> 0, active_users |-> 0,
         occasional_users |-> 0, low_activity_users |-> u], 1)

InsightTables(keys) ==
  UNION {{{InsightRow(k[1], k[2], f[k]) : k \in K} : f \in [K -> UserCounts]}
               : K \in SUBSET keys}

InitInsight ==
  /\ InitCommon
  /\ corrX = << >>
  /\ corrY = << >>
  /\ runS = 0
  /\ runP = 0
  /\ weekly_stats \in InsightTables(DataYears \X (1..MaxWeek))
  /\ price_history = {}
  /\ year = StartYear
  /\ rawIn = {}
  /\ stats = << >>
  /\ pcS = "idle"

SpecInsight == InitInsight /\ [][ServerNext]_vars

\* ------------------------------------------ the queries over both tables
\* the stored row of week wk of year yr, with a number of accounts of its own
JoinRow(yr, wk) == InsightRow(yr, wk, 10 + wk + 2 * (yr - StartYear))

JoinTables ==
  LET keys == DataYears \X (1..MaxWeek)
  IN  {{JoinRow(k[1], k[2]) : k \in K} : K \in SUBSET keys}

\* days around the first week of a steem year, and the first day of a hive year
JoinDays ==
  {DATEFROMPARTS(CutoverYear - 1) + o : o \in {-1, 0, 6, 7}}
    \cup {DATEFROMPARTS(CutoverYear)}

Quotes == {<< "steem", 2 >>, << "steem", 4 >>, << "hive", 2 >>}

\* price_history as savePrices leaves it: one row a day, of either coin
JoinPrices ==
  UNION {{{[date |-> d, coin |-> f[d][1], price_usd |-> f[d][2], fetched_at |-> 1]
             : d \in D} : f \in [D -> Quotes]}
           : D \in {E \in SUBSET JoinDays : Cardinality(E) <= MaxPrices}}

InitJoin ==
  /\ InitCommon
  /\ corrX = << >>
  /\ corrY = << >>
  /\ runS = 0
  /\ runP = 0
  /\ weekly_stats \in JoinTables
  /\ price_history \in JoinPrices
  /\ year = StartYear
  /\ rawIn = {}
  /\ stats = << >>
  /\ pcS = "idle"

SpecJoin == InitJoin /\ [][ServerNext]_vars

\* ------------------------------------------ the queries over tier counts
\* numbers of accounts in the tiers ultra, very, active, occasional, low of
\* one week
TierMixes ==
  {<< 1, 1, 1, 1, 3 >>, << 0, 0, 0, 0, 7 >>, << 0, 1, 0, 2, 0 >>,
   << 2, 0, 0, 0, 1 >>}

\* the stored row of week wk of year yr with the tier counts t, each account
\* having posted once
TieredRow(yr, wk, t) ==
  DbRow([year |-> yr, week |-> wk, week_start |-> WeekStart(yr, wk),
         total_users |-> t[1] + t[2] + t[3] + t[4] + t[5],
         total_posts |-> t[1] + t[2] + t[3] + t[4] + t[5],
         total_comments |-> 0,
         ultra_active_users |-> t[1], very_active_users |-> t[2],
         active_users |-> t[3], occasional_users |-> t[4],
         low_activity_users |-> t[5]], 1)

TierTables(keys) ==
  UNION {{{TieredRow(k[1], k[2], f[k]) : k \in K} : f \in [K -> TierMixes]}
               : K \in SUBSET keys}

InitTiers ==
  /\ InitCommon
  /\ corrX = << >>
  /\ corrY = << >>
  /\ runS = 0
  /\ runP = 0
  /\ weekly_stats \in TierTables(DataYears \X (1..MaxWeek))
  /\ price_history = {}
  /\ year = StartYear
  /\ rawIn = {}
  /\ stats = << >>
  /\ pcS = "idle"

SpecTiers == InitTiers /\ [][ServerNext]_vars

\* ------------------------------------------- calculateCorrelation alone
\* decimal literals n/d
PriceVals == {<< 5, 1 >>, << 3, 10 >>}
Slopes == {<< 1, 1 >>, << 3, 10 >>}
UserVals == {10, 20, 30, 40}

\* price vectors of length n: constant ones and rising ones
XVecs(n) ==
  {[i \in 1..n |-> FromRat(c[1], c[2])] : c \in PriceVals}
    \cup {[i \in 1..n |-> FromRat(k[1] * i, k[2])] : k \in Slopes}

\* users vectors of length n
YVecs(n) == {[i \in 1..n |-> FromInt(f[i])] : f \in [1..n -> UserVals]}

InitCorr ==
  /\ InitCommon
  /\ runS = 0
  /\ runP = 0
  /\ weekly_stats = {}
  /\ price_history = {}
  /\ year = StartYear
  /\ rawIn = {}
  /\ stats = << >>
  /\ pcS = "idle"
  /\ \E n \in 0..MaxLen : corrX \in XVecs(n) /\ corrY \in YVecs(n)

\* correlation = calculateCorrelation(prices, users), correlationDesc and
\* the coefficient as it is reported
Correlate ==
  /\ corrOut = NoCorr
  /\ LET c == calculateCorrelation(corrX, corrY)
     IN  corrOut' = [correlation |-> c, priceUserCorrelation |-> ToFixed3(c),
                     description |-> CorrelationDesc(c)]
  /\ UNCHANGED << weekly_stats, price_history, failIdx, varsS, varsP, pcR,
                  response, readCtx, corrX, corrY >>

SpecCorr == InitCorr /\ [][Correlate]_vars

\* ================================================================ claims
TierSum(r) ==
  r.ultra_active_users + r.very_active_users + r.active_users
    + r.occasional_users + r.low_activity_users

\* posts + comments of account a in week wk of year y, counted on the raw rows
Activity(tbl, a, y, wk) ==
  LET G == {g \in tbl : g.author = a /\ DatePartYear(g.created) = y
                         /\ DatePartWeek(g.created) = wk}
  IN  SumF([g \in G |-> g.posts + g.comments], G)

\* C1: in every weekly row the aggregation returns and in every row stored in
\* weekly_stats, the five tier counts add up to total_users.
C1_TierPartition ==
  /\ \A i \in DOMAIN stats : TierSum(stats[i]) = stats[i].total_users
  /\ \A r \in weekly_stats : TierSum(r) = r.total_users

C1_Witness ==
  /\ pcS = "saved"
  /\ \E r \in weekly_stats :
       /\ r.total_users = 2
       /\ r.ultra_active_users = 1
       /\ r.very_active_users = 1

\* C2: each weekly row counts in each tier exactly the accounts whose weekly
\* activity n lies in that tier's range (ultra n >= 50, very 20..49, active
\* 10..19, occasional 3..9, low 1..2), and every account with n >= 1 is in
\* exactly one of them.
C2_TierBoundaries ==
  pcS # "fetch" =>
    \A i \in DOMAIN stats :
      LET r == stats[i]
          n(a) == Activity(rawIn, a, r.year, r.week)
          in(lo, hi) == Cardinality({a \in Accounts : n(a) >= lo /\ n(a) <= hi})
      IN  /\ r.ultra_active_users = Cardinality({a \in Accounts : n(a) >= 50})
          /\ r.very_active_users = in(20, 49)
          /\ r.active_users = in(10, 19)
          /\ r.occasional_users = in(3, 9)
          /\ r.low_activity_users = in(1, 2)
          /\ r.total_users = Cardinality({a \in Accounts : n(a) >= 1})

\* 55 posts and no comment is ultra active; 2 posts and 1 comment is occasional
C2_Witness ==
  /\ pcS = "fetched"
  /\ rawIn = {[author |-> "alice", created |-> DATEFROMPARTS(year),
               posts |-> 55, comments |-> 0],
              [author |-> "bob", created |-> DATEFROMPARTS(year) + 1,
               posts |-> 2, comments |-> 1]}
  /\ Len(stats) = 1
  /\ stats[1].ultra_active_users = 1
  /\ stats[1].occasional_users = 1
  /\ TierSum(stats[1]) = 2

RECURSIVE SumSeq(_, _)
SumSeq(s, field) ==
  IF s = << >> THEN 0 ELSE Head(s)[field] + SumSeq(Tail(s), field)

\* the raw rows of the queried year, by the dates themselves
RawOfYear(tbl, y) == {g \in tbl : DatePartYear(g.created) = y}

\* C3: over the weekly rows of a year, total_posts adds up to the number of
\* posts among the year's raw actions and total_comments to the number of its
\* comments.
C3_ActionsPreserved ==
  pcS # "fetch" =>
    /\ SumSeq(stats, "total_posts") = NumPosts(RawOfYear(rawIn, year))
    /\ SumSeq(stats, "total_comments") = NumComments(RawOfYear(rawIn, year))

\* one account active on two days of one week: one row for both days
C3_Witness ==
  /\ pcS = "fetched"
  /\ Len(stats) = 1
  /\ \E g, h \in rawIn :
       /\ g # h
       /\ g.author = h.author
       /\ DatePartWeek(g.created) = DatePartWeek(h.created)
  /\ SumSeq(stats, "total_posts") + SumSeq(stats, "total_comments") > 50

\* the eleven WeeklyStats fields of the stored rows
WeeklyStatsOf(tbl) ==
  {[f \in DOMAIN r \ {"fetched_at"} |-> r[f]] : r \in tbl}

\* C4: committing the batch aggregated from the same source rows as the
\* year's previous commit leaves weekly_stats with the same keys and the same
\* WeeklyStats field values, and with no more rows.
C4_Idempotent ==
  [][(pcS = "save" /\ pcS' = "loop" /\ ingested[year] = rawIn)
       => /\ WeeklyStatsOf(weekly_stats') = WeeklyStatsOf(weekly_stats)
          /\ Cardinality(weekly_stats') = Cardinality(weekly_stats)]_vars

\* a second run has committed a year's unchanged rows over those of the first
C4_Witness ==
  /\ repeatS
  /\ runS = 2
  /\ \E r \in weekly_stats : r.year = year - 1 /\ r.fetched_at = 2
  /\ Cardinality({r \in weekly_stats : r.year = year - 1}) = 2

\* C5: when an insert of a batch throws, in saveToDatabase or in savePrices,
\* the table is left as it was when the batch began.
C5_AtomicBatch ==
  [][/\ (pcS = "save" /\ pcS' = "finally") => weekly_stats' = preS
     /\ (pcP = "save" /\ pcP' # "save" /\ idxP <= Len(prices))
          => price_history' = preP]_vars

\* both programs have had a batch fail after its first row was written
C5_Witness ==
  /\ failIdx.stats > 1
  /\ failIdx.price > 1
  /\ pcS = "finally"
  /\ outcomeS = "save_error"
  /\ errP = "save"

\* C6: what getStats reads while saveToDatabase is writing a batch is the
\* table before the batch or the table after the batch.
C6_NoPartialBatch ==
  readCtx.inTx => (readCtx.seen = readCtx.pre \/ readCtx.seen = readCtx.post)

\* a read falls between the first and the second insert of a batch
C6_Witness ==
  /\ pcR = "respond"
  /\ readCtx.inTx
  /\ pcS = "save"
  /\ rowIdx = 2
  /\ Len(stats) = 2
  /\ readCtx.pre # readCtx.post

Later(q, r) == q.year > r.year \/ (q.year = r.year /\ q.week > r.week)

\* the row with exactly one later row
SecondMostRecent(ws) ==
  CHOOSE r \in ws : Cardinality({q \in ws : Later(q, r)}) = 1

UsersInOrder(ws) ==
  LET rows == OrderedRows(ws) IN [i \in 1..Len(rows) |-> rows[i].total_users]

\* C7: with at least 2 rows stored, getStats answers and its last complete
\* week is the second-most-recent row in (year, week) order.
C7_LastCompleteWeek ==
  (pcR = "respond" /\ Cardinality(weekly_stats) >= 2) =>
    /\ response.status = "ok"
    /\ response.summary.lastCompleteWeekUsers
         = SecondMostRecent(weekly_stats).total_users
    /\ response.summary.lastCompleteWeekDate
         = SecondMostRecent(weekly_stats).week_start

\* three weeks with 100, 150 and 120 users: 150 is reported
C7_Witness ==
  /\ pcR = "respond"
  /\ UsersInOrder(weekly_stats) = << 100, 150, 120 >>
  /\ response.summary.lastCompleteWeekUsers = 150

EarliestPeak(ws) ==
  CHOOSE r \in PeakRows(ws) : \A q \in PeakRows(ws) : ~Later(r, q)

\* C9: the peak is the maximal total_users, and among rows sharing it the
\* earliest in (year, week) order is the one whose date is reported.
C9_PeakEarliest ==
  (pcR = "respond" /\ response.status = "ok") =>
    /\ response.summary.peakWeeklyUsers = EarliestPeak(weekly_stats).total_users
    /\ response.summary.peakWeekDate = EarliestPeak(weekly_stats).week_start

\* C10: changePercent is null for the first year of the series and for a year
\* whose predecessor averages 0 users, and is never Infinity or NaN.
C10_ChangePercentAbsent ==
  (pcR = "respond" /\ response.status = "ok") =>
    \A i \in DOMAIN response.yearOverYear :
      LET e == response.yearOverYear[i]
      IN  /\ i = 1 => e.changePercent = Null
          /\ (i > 1 /\ response.yearOverYear[i - 1].avgWeeklyUsers = 0)
               => e.changePercent = Null
          /\ e.changePercent.kind \in {"null", "num"}

\* two years with different averages: null for the first, a number after it
C10_Witness ==
  /\ pcR = "respond"
  /\ response.status = "ok"
  /\ Len(response.yearOverYear) = 2
  /\ response.yearOverYear[1].changePercent = Null
  /\ response.yearOverYear[2].changePercent.kind = "num"

\* the average weekly users of year y as the pair sum, number of weeks
UsersOfYear(ws, y) ==
  LET G == {r \in ws : r.year = y}
  IN  [sum |-> SumF([r \in G |-> r.total_users], G), n |-> Cardinality(G)]

\* C11: for a year that is not the first of the series and whose previous
\* year has a non-zero average, changePercent is the number
\* (avg[Y] - avg[Y-1]) / avg[Y-1] * 100 (to the one decimal reported), and it
\* is the number 0, not null, when the two averages are equal.
C11_ChangePercentFormula ==
  (pcR = "respond" /\ response.status = "ok") =>
    \A i \in DOMAIN response.yearOverYear :
      LET y == response.yearOverYear[i].year
          cur == UsersOfYear(weekly_stats, y)
          prev == UsersOfYear(weekly_stats, y - 1)
      IN  (i > 1 /\ prev.n > 0 /\ prev.sum > 0) =>
            response.yearOverYear[i].changePercent
              = Num(RoundDiv(1000 * (cur.sum * prev.n - prev.sum * cur.n),
                             prev.sum * cur.n))

\* the coin of a year under the cutover policy
CoinOfYear(y) == IF y < 2020 THEN "steem" ELSE "hive"

\* the stored prices of coin c on the 7 days that begin at day d
PricesOfWeek(ph, c, d) ==
  {q \in ph : q.coin = c /\ \E o \in 0..6 : q.date = d + o}

\* the sum of the fractions s[i].sum / s[i].n as the pair num, den
RECURSIVE SumOfMeans(_)
SumOfMeans(s) ==
  IF s = << >> THEN [num |-> 0, den |-> 1]
  ELSE LET t == SumOfMeans(Tail(s))
       IN  [num |-> Head(s).sum * t.den + t.num * Head(s).n,
            den |-> Head(s).n * t.den]

\* C12: a year's avgPrice is the mean, over the year's weekly rows that have
\* a price average, of those weekly averages (to the 4 decimals reported),
\* and it is null when no week of the year has a price average.
C12_AvgPriceMeanOfMeans ==
  (pcR = "respond" /\ response.status = "ok") =>
    \A i \in DOMAIN response.yearOverYear :
      LET e == response.yearOverYear[i]
          W == SelectSeq(response.weeklyStats,
                         LAMBDA w : w.year = e.year /\ w.avg_price.kind = "num")
          means == [j \in 1..Len(W) |-> W[j].avg_price]
          t == SumOfMeans(means)
      IN  IF W = << >> THEN e.avgPrice = Null
          ELSE e.avgPrice = Num(RoundDiv(10000 * t.num, t.den * Len(W)))

\* C13: each row of getWeeklyStats has as avg_price the mean of the stored
\* prices of the year's coin (steem before 2020, hive from 2020 on) dated in
\* the 7 days from week_start, and null when there is none.
C13_WeeklyAvgPrice ==
  (pcR = "respond" /\ response.status = "ok") =>
    \A i \in DOMAIN response.weeklyStats :
      LET w == response.weeklyStats[i]
          M == PricesOfWeek(price_history, CoinOfYear(w.year), w.week_start)
      IN  IF M = {} THEN w.avg_price.kind = "null"
          ELSE /\ w.avg_price.kind = "num"
               /\ w.avg_price.n = Cardinality(M)
               /\ w.avg_price.sum = SumF([q \in M |-> q.price_usd], M)

\* one week averages the price of its 7 days, the day after them left out;
\* a week of the hive years has only a steem price on its days and gets null
C13_Witness ==
  /\ pcR = "respond"
  /\ response.status = "ok"
  /\ \E i, j \in DOMAIN response.weeklyStats :
       LET w == response.weeklyStats[i]
           v == response.weeklyStats[j]
       IN  /\ w.avg_price = [kind |-> "num", sum |-> 4, n |-> 1]
           /\ \E q \in price_history : q.date = w.week_start + 7
           /\ v.year = 2020
           /\ v.avg_price.kind = "null"
           /\ \E q \in price_history : q.date = v.week_start /\ q.coin = "steem"

\* every element of the vector is the same number
ZeroVariance(v) == \A i, j \in DOMAIN v : v[i] = v[j]

\* C14: calculateCorrelation returns exactly 0, never NaN, when either of
\* its vectors has zero variance.
C14_ZeroVarianceIsZero ==
  (corrOut # NoCorr /\ (ZeroVariance(corrX) \/ ZeroVariance(corrY)))
    => corrOut.correlation = NumOf(FlZero)

\* a * b = c * d, exactly
SameProduct(a, b, c, d) ==
  FlNorm(a.m * b.m, a.e + b.e) = FlNorm(c.m * d.m, c.e + d.e)

\* v is strictly increasing and w is a positive multiple of it
CoIncreasing(v, w) ==
  /\ Len(v) >= 2
  /\ Len(w) = Len(v)
  /\ v[1].m > 0
  /\ w[1].m > 0
  /\ \A i \in 1..(Len(v) - 1) : FlLess(v[i], v[i + 1])
  /\ \A i \in DOMAIN v : SameProduct(w[i], v[1], w[1], v[i])

\* C15: for a strictly increasing x and y a positive multiple of x,
\* calculateCorrelation yields r = 1.
C15_PerfectCorrelation ==
  (corrOut # NoCorr /\ CoIncreasing(corrX, corrY))
    => corrOut.correlation = NumOf(FromInt(1))

\* every element of the vector is an integer
Integral(v) == \A i \in DOMAIN v : v[i].e >= 0

\* C15 as amended: for integer-valued vectors, whose sums and products are
\* computed exactly, a strictly increasing x and y a positive multiple of x
\* give exactly r = 1.
C15_ExactPerfectCorrelation ==
  (corrOut # NoCorr /\ CoIncreasing(corrX, corrY)
     /\ Integral(corrX) /\ Integral(corrY))
    => /\ corrOut.correlation = NumOf(FromInt(1))
       /\ corrOut.priceUserCorrelation = Num(1000)

\* price = [1,2,3,4] against users = [10,20,30,40]
C15_Witness ==
  /\ corrOut # NoCorr
  /\ corrX = [i \in 1..4 |-> FromInt(i)]
  /\ corrY = [i \in 1..4 |-> FromInt(10 * i)]
  /\ corrOut.priceUserCorrelation = Num(1000)

\* the positions of the rows that have a price average, in ascending order
PricedWeeks(weeklyStats) ==
  SortedSeq({i \in DOMAIN weeklyStats : weeklyStats[i].avg_price.kind = "num"})

\* C16: the correlation is that of the price averages and the total_users
\* of exactly the weekly rows that have a price average, paired week by
\* week; a row without one is in neither vector.
C16_CorrelationVectors ==
  (pcR = "respond" /\ response.status = "ok") =>
    LET ix == PricedWeeks(response.weeklyStats)
        P == [k \in 1..Len(ix) |->
                FlDiv(FromInt(response.weeklyStats[ix[k]].avg_price.sum),
                      FromInt(response.weeklyStats[ix[k]].avg_price.n))]
        U == [k \in 1..Len(ix) |->
                FromInt(response.weeklyStats[ix[k]].total_users)]
        c == calculateCorrelation(P, U)
    IN  /\ response.correlations.priceUserCorrelation = ToFixed3(c)
        /\ response.correlations.description = CorrelationDesc(c)

\* two priced weeks that rise together and a later week with no price
C16_Witness ==
  /\ pcR = "respond"
  /\ response.status = "ok"
  /\ Len(response.weeklyStats) = 3
  /\ response.weeklyStats[1].avg_price.kind = "num"
  /\ response.weeklyStats[2].avg_price.kind = "num"
  /\ response.weeklyStats[3].avg_price.kind = "null"
  /\ response.correlations.priceUserCorrelation = Num(1000)

\* the words of the descriptions
StrengthWord(d) ==
  CASE d = "Strong positive correlation - price and users move together" -> "Strong"
    [] d = "Strong negative correlation - inverse relationship" -> "Strong"
    [] d = "Moderate positive correlation" -> "Moderate"
    [] d = "Moderate negative correlation" -> "Moderate"
    [] d = "Weak positive correlation" -> "Weak"
    [] d = "Weak negative correlation" -> "Weak"
    [] d = "No significant correlation" -> "No significant"

SignWords(d) ==
  CASE d = "Strong positive correlation - price and users move together" -> {"positive"}
    [] d = "Strong negative correlation - inverse relationship" -> {"negative", "inverse"}
    [] d = "Moderate positive correlation" -> {"positive"}
    [] d = "Moderate negative correlation" -> {"negative"}
    [] d = "Weak positive correlation" -> {"positive"}
    [] d = "Weak negative correlation" -> {"negative"}
    [] d = "No significant correlation" -> {}

\* the strength word that |r| calls for
StrengthOf(c) ==
  LET a == IF c.f.m < 0 THEN FlNeg(c.f) ELSE c.f
      above(n, d) == c.kind = "num" /\ FlLess(FromRat(n, d), a)
  IN  IF above(7, 10) THEN "Strong"
      ELSE IF above(4, 10) THEN "Moderate"
      ELSE IF above(2, 10) THEN "Weak"
      ELSE "No significant"

\* the description has the strength word of |r| and, with it, the word
\* `pos` for r > 0 and the word `neg` for r < 0
DescribedBy(out, pos, neg) ==
  /\ StrengthWord(out.description) = StrengthOf(out.correlation)
  /\ StrengthOf(out.correlation) # "No significant" =>
       IF out.correlation.f.m > 0 THEN pos \in SignWords(out.description)
       ELSE neg \in SignWords(out.description)

\* C17: the strength word depends on |r| alone (strong above 0.7, moderate
\* above 0.4, weak above 0.2, otherwise no significant correlation), and the
\* sign word is positive for r > 0 and inverse for r < 0.
C17_DescriptionSymmetric ==
  corrOut # NoCorr => DescribedBy(corrOut, "positive", "inverse")

\* C17 as amended: the same, the sign word for r < 0 being negative.
C17_DescriptionNegative ==
  corrOut # NoCorr => DescribedBy(corrOut, "positive", "negative")

\* r = -0.5
C17_Witness ==
  /\ corrOut.priceUserCorrelation = Num(-500)
  /\ corrOut.description = "Moderate negative correlation"

\* the five percentages of a response, in tenths
Percentages(resp) ==
  LET d == resp.activityDistribution
  IN  << d.ultraActive, d.veryActive, d.active, d.occasional, d.lowActivity >>

\* the grand total of the tier counts of all rows
GrandTotal(ws) == SumF([r \in ws |-> TierSum(r)], ws)

\* the five percentages are numbers that add up to 100.0 within tol tenths
AddUpTo100(resp, tol) ==
  LET p == Percentages(resp)
  IN  /\ \A i \in 1..5 : p[i].kind = "num"
      /\ Abs(p[1].val + p[2].val + p[3].val + p[4].val + p[5].val - 1000) <= tol

C19_ZeroTotalIsZero ==
  (pcR = "respond" /\ GrandTotal(weekly_stats) = 0) =>
    /\ response.status = "ok"
    /\ \A i \in 1..5 : Percentages(response)[i] = Num(0)

\* C20: price_history holds at most one price per coin and day, and a stored
\* price is the one the latest committed ingestion of its coin and day wrote.
C20_OnePricePerCoinDay ==
  /\ \A q, r \in price_history : (q.coin = r.coin /\ q.date = r.date) => q = r
  /\ \A q \in price_history :
       \E l \in latestP :
         /\ l.coin = q.coin
         /\ l.date = q.date
         /\ l.price_usd = q.price_usd
         /\ l.at = q.fetched_at

\* a second run has replaced a coin's price of a day by another price
C20_Witness ==
  \E q \in price_history :
    \E l \in latestP :
      /\ l.coin = q.coin
      /\ l.date = q.date
      /\ l.was = 2
      /\ q.price_usd = 3
      /\ q.fetched_at = 2

\* C21: every price in the price store is strictly positive, inside an open
\* savePrices transaction as well as committed: fetchDailyHistory drops the
\* closes that are zero or negative.
C21_PositivePrices ==
  /\ \A q \in price_history \cup txP : q.price_usd > 0
  /\ \A i \in 1..Len(prices) : prices[i].price > 0

\* the last response held closes that were dropped, and the rest of it has
\* been saved and committed
C21_Witness ==
  /\ pcP \in {"fetch", "summary"}
  /\ droppedP > 0
  /\ \E q \in price_history :
       /\ q.coin = (IF pcP = "fetch" THEN "steem" ELSE "hive")
       /\ q.fetched_at = runP

\* C22: every weekly row has week_start = January 1 of its year plus
\* (week - 1) * 7 days, and every raw action counted in the row has its date
\* in [week_start, week_start + 7 days).
C22_WeekStartAligned ==
  pcS # "fetch" =>
    \A i \in DOMAIN stats :
      LET r == stats[i]
          start == DATEFROMPARTS(r.year) + (r.week - 1) * 7
      IN  /\ r.week_start = MkDate(start)
          /\ \A g \in rawIn :
               (DatePartYear(g.created) = r.year
                  /\ DatePartWeek(g.created) = r.week)
                 => (start <= g.created /\ g.created < start + 7)

\* C30: the price-averaging windows [week_start, week_start + 7 days) of any
\* two distinct stored weekly rows do not overlap.
C30_WindowsDisjoint ==
  \A q, r \in weekly_stats :
    q # r => (q.week_start + 7 <= r.week_start
                \/ r.week_start + 7 <= q.week_start)

\* (year, week) of q comes before (year, week) of r
KeyBefore(q, r) == q.year < r.year \/ (q.year = r.year /\ q.week < r.week)

\* C23: the weeklyStats of a response hold exactly one row per stored
\* (year, week) key, with the stored columns, in ascending (year, week)
\* order, however many price rows fall in a week's window.
C23_ScanOrdered ==
  (pcR = "respond" /\ response.status = "ok") =>
    LET out == response.weeklyStats
    IN  /\ \A r \in weekly_stats :
             Cardinality({i \in 1..Len(out) :
                            out[i].year = r.year /\ out[i].week = r.week}) = 1
        /\ \A i \in 1..Len(out) :
             \E r \in weekly_stats : \A f \in DOMAIN r : out[i][f] = r[f]
        /\ \A i \in 1..(Len(out) - 1) : KeyBefore(out[i], out[i + 1])

\* three weeks of two years served, one of them with two price rows in
\* its window
C23_Witness ==
  /\ pcR = "respond"
  /\ response.status = "ok"
  /\ Len(response.weeklyStats) = 3
  /\ response.weeklyStats[1].year < response.weeklyStats[3].year
  /\ \E i \in 1..3 : response.weeklyStats[i].avg_price.n = 2

\* C24: when the source holds no record in the range of the year that is
\* fetched, the aggregation result is empty and the loop goes on to the next
\* year with nothing written and no error raised.
C24_EmptyYearSkipped ==
  [][(FetchYear /\ InYear(rawIn', year) = {}) =>
       /\ fetchWeeklyStats(rawIn', year) = << >>
       /\ pcS' = "loop"
       /\ year' = year + 1
       /\ weekly_stats' = weekly_stats
       /\ txS' = txS
       /\ outcomeS' = outcomeS]_vars

\* a first run found 2019 empty, went on to save 2020 and ended without
\* error
C24_Witness ==
  /\ runS = 1
  /\ outcomeS = "ok"
  /\ weekly_stats # {}
  /\ \A r \in weekly_stats : r.year = EndYear

\* C25: a failed fetch ends the ingestion run with an error outcome and is
\* not retried: a rejected query of fetchWeeklyStats leaves the year loop
\* with the error, and a run of fetch-hive-price in which fetchDailyHistory
\* threw ends with an error and did not fetch that coin again.
C25_FetchFailureSurfaced ==
  /\ [][FetchFail => (outcomeS' = "error" /\ pcS' = "finally")]_vars
  /\ [][FetchPricesFail => ~(pcP' = "fetch" /\ coinP' = coinP)]_vars
  /\ []((pcP = "idle" /\ errP = "fetch") => outcomeP = "error")

\* C26: a run of fetch-hive-stats takes the years one at a time in ascending
\* order from 2016, and the batch of a year is committed whole before the
\* next year is fetched; when the fetch of a year fails, what earlier years
\* committed stays, no row of that year or a later one is written in the
\* run, and the pool and the database are closed when the run has ended.
C26_SequentialYears ==
  /\ [][\/ year' = year
        \/ year' = year + 1
        \/ (pcS = "connect" /\ year' = StartYear)]_vars
  /\ [][year' = year + 1 =>
          /\ pcS' = "loop"
          /\ txS' = {}
          /\ pcS = "save" =>
               weekly_stats' = InsertMany(weekly_stats, stats, 1, runS)]_vars
  /\ [](pcS = "loop" => (txS = {} /\ StartYear <= year /\ year <= EndYear + 1))
  /\ [][FetchFail => (pcS' = "finally" /\ weekly_stats' = weekly_stats)]_vars
  /\ [][pcS = "finally" =>
          /\ weekly_stats' = weekly_stats
          /\ pcS' # pcS => (pcS' = "idle" /\ ~poolOpen' /\ ~dbOpenS')]_vars
  /\ []((pcS \in {"finally", "idle"} /\ outcomeS = "error") =>
          \A r \in weekly_stats : r.fetched_at = runS => r.year < year)
  /\ [](pcS = "idle" => (~poolOpen /\ ~dbOpenS))

\* the first run committed 2019, the fetch of 2020 failed, and the run has
\* ended with both connections closed
C26_Witness ==
  /\ pcS = "idle"
  /\ runS = 1
  /\ outcomeS = "error"
  /\ year = EndYear
  /\ weekly_stats # {}
  /\ \A r \in weekly_stats : r.year = EndYear - 1 /\ r.fetched_at = 1
  /\ ~poolOpen
  /\ ~dbOpenS

\* C27: in every response summary.totalWeeks is the number of rows of
\* weeklyStats and summary.totalUserWeeks is the sum of total_users over
\* those rows, also when a batch commits while getStats runs.
C27_ConsistentSnapshot ==
  (pcR = "respond" /\ response.status = "ok") =>
    /\ response.summary.totalWeeks = Len(response.weeklyStats)
    /\ response.summary.totalUserWeeks =
         SumSeq(response.weeklyStats, "total_users")

\* the raw rows the source returned for the year whose pass ends with this
\* step, and the rows aggregated from them as they are written
PassRows ==
  LET raw == IF pcS = "save" THEN rawIn ELSE rawIn'
      agg == fetchWeeklyStats(raw, year)
  IN  {DbRow(agg[i], runS) : i \in DOMAIN agg}

SameKey(q, r) == q.year = r.year /\ q.week = r.week

\* C28 as claimed: when the pass for a year completes, the stored rows of that
\* year are exactly the rows aggregated in the pass.
C28_ExactRows ==
  [][year' = year + 1 =>
       {r \in weekly_stats' : r.year = year} = PassRows]_vars

\* C28: when the pass for a year completes, every row aggregated in the pass
\* is stored under its (year, week) key, and every row stored before under a
\* key that the new aggregation lacks is still stored as it was; nothing else
\* is stored.
C28_UpsertedRows ==
  [][year' = year + 1 =>
       /\ PassRows \subseteq weekly_stats'
       /\ \A r \in weekly_stats :
            (\A n \in PassRows : ~SameKey(n, r)) => r \in weekly_stats'
       /\ \A r \in weekly_stats' :
            \/ r \in PassRows
            \/ (r \in weekly_stats /\ \A n \in PassRows : ~SameKey(n, r))]_vars

\* the second run found only one of the two weeks the first run stored for
\* 2019: the other week's row of the first run is still there
C28_Witness ==
  /\ pcS = "loop"
  /\ runS = 2
  /\ year = EndYear
  /\ \E q, r \in weekly_stats :
       /\ q.year = EndYear - 1
       /\ r.year = EndYear - 1
       /\ q.fetched_at = 1
       /\ r.fetched_at = 2

\* the batch being saved holds a price of day d
Covers(d) == \E i \in DOMAIN prices : prices[i].date = d

\* C29 as claimed: saving a batch of one coin leaves every stored row of the
\* other coin in price_history.
C29_OtherCoinUnchanged ==
  [][pcP = "save" =>
       \A q \in price_history : q.coin # coinP => q \in price_history']_vars

\* C29: saving a batch of one coin leaves every stored row of the other coin
\* unchanged except the rows of the days the batch covers, which the commit
\* of the batch removes in favour of the batch's rows.
C29_OtherCoinKeptOffBatch ==
  [][pcP = "save" =>
       \A q \in price_history :
         q.coin # coinP =>
           /\ (~Covers(q.date) \/ price_history' = price_history)
                => q \in price_history'
           /\ (Covers(q.date) /\ price_history' # price_history)
                => /\ q \notin price_history'
                   /\ \E r \in price_history' :
                        r.date = q.date /\ r.coin = coinP]_vars

\* in one run the hive batch has replaced the steem price of one day and
\* left the steem price of another day
C29_Witness ==
  /\ pcP = "summary"
  /\ \E q, r \in price_history :
       /\ q.coin = "steem"
       /\ q.fetched_at = runP
       /\ r.coin = "hive"
       /\ r.fetched_at = runP
       /\ \E l \in latestP :
            l.coin = "steem" /\ l.date = r.date /\ l.at = runP

====
